---- MODULE Spec2Model ----
(***************************************************************************)
(* Semantic analysis pass (SymTableGen) of the ola interpreter:            *)
(* interpreter/src/sema/mod.rs.  The analyzer walks the AST depth first;   *)
(* the model visits one node per step and keeps the open constructs        *)
(* (entry, entry block, function bodies, conditionals, loops) on a stack.  *)
(***************************************************************************)
EXTENDS Integers, Sequences, FiniteSets, TLC

VARIABLES prophet, scopes, current_scope, stack, result, msg, last,
          pass, tree, first, pos

vars == <<prophet, scopes, current_scope, stack, result, msg, last,
          pass, tree, first, pos>>

\* ---------------------------------------------------------------- bounds
MaxDepth == 3
MaxNest == 1
MaxLen == 2
MaxNodes == 5

\* ------------------------------------------------------- names and tokens
Names == {"x", "f", "g"}
ParamNames == {"x", "f"}

Id(name) == [tag |-> "Id", name |-> name]
ArrayId(name) == [tag |-> "ArrayId", name |-> name]
Cid(name) == [tag |-> "Cid", name |-> name]

\* type tokens and compile-time type values share one shape
Nil == [k |-> "Nil", elem |-> "", len |-> 0]
I32 == [k |-> "I32", elem |-> "", len |-> 0]
Felt == [k |-> "Felt", elem |-> "", len |-> 0]
Array(elem, len) == [k |-> "Array", elem |-> elem.k, len |-> len]

\* Display of a token: an identifier prints its name, a type its keyword
to_string(token) ==
    IF "name" \in DOMAIN token THEN token.name
    ELSE IF token.k = "Felt" THEN "felt"
    ELSE IF token.k = "I32" THEN "i32"
    ELSE "array"

ElemToken(token) == IF token.elem = "I32" THEN I32 ELSE Felt

\* Number::from(&Token): the type value of a type token
NumberFrom(token) == token

\* Number::binop_number_type: the promoted type of a binary operation
binop_number_type(left, right) == IF left = right THEN left ELSE Felt

\* number_from_token(&Token, len): element type expanded to len
number_from_token(token, len) ==
    [k |-> "Array",
     elem |-> IF token.k = "Array" THEN token.elem ELSE token.k,
     len |-> len]

\* ------------------------------------------------------------------ symbols
None == [kind |-> "None", name |-> "", ty |-> Nil, size |-> <<>>, params |-> <<>>]
BuiltInSymbol(ty) ==
    [kind |-> "BuiltInSymbol", name |-> "", ty |-> ty, size |-> <<>>, params |-> <<>>]
IdentSymbol(name, ty, size) ==
    [kind |-> "IdentSymbol", name |-> name, ty |-> ty, size |-> size, params |-> <<>>]
FuncSymbol(name, params) ==
    [kind |-> "FuncSymbol", name |-> name, ty |-> Nil, size |-> <<>>, params |-> params]

\* the default content of a new table: the builtin type names
Builtins == [n \in {"felt", "i32"} |-> IF n = "felt" THEN BuiltInSymbol(Felt)
                                                     ELSE BuiltInSymbol(I32)]

\* SymbolTable::new(scope_name, scope_level, enclosing_scope); 0 is no scope
SymbolTable(scope_name, scope_level, enclosing_scope) ==
    [scope_name |-> scope_name, scope_level |-> scope_level,
     enclosing_scope |-> enclosing_scope, symbols |-> Builtins]

Put(map, name, symbol) ==
    [n \in DOMAIN map \cup {name} |-> IF n = name THEN symbol ELSE map[n]]

\* SymbolTable::insert: into this scope's mapping only, under the symbol's name
insert(sc, c, symbol) ==
    [sc EXCEPT ![c].symbols = Put(sc[c].symbols, symbol.name, symbol)]

\* SymbolTable::lookup: this scope, else the enclosing scope, else None
RECURSIVE lookup(_, _, _)
lookup(sc, c, name) ==
    IF c = 0 THEN None
    ELSE IF name \in DOMAIN sc[c].symbols THEN sc[c].symbols[name]
    ELSE lookup(sc, sc[c].enclosing_scope, name)

\* SymbolTable::get: the symbol registered for a type token in this scope; a
\* token that is not registered there is fatal inside get, which then returns
\* nothing to its caller (None stands for that)
get(sc, c, token) ==
    IF to_string(token) \in DOMAIN sc[c].symbols
    THEN sc[c].symbols[to_string(token)] ELSE None

\* ------------------------------------------------------- traversal results
Ok(val, node, sc, c) ==
    [st |-> "Ok", msg |-> "", val |-> val, node |-> node, sc |-> sc, cur |-> c]
Err(m, node, sc, c) ==
    [st |-> "Err", msg |-> m, val |-> Nil, node |-> node, sc |-> sc, cur |-> c]
Panic(m, node, sc, c) ==
    [st |-> "Panic", msg |-> m, val |-> Nil, node |-> node, sc |-> sc, cur |-> c]

\* -------------------------------------------------------------- AST nodes
FeltNumNode == [op |-> "felt"]
IntegerNumNode == [op |-> "integer"]
IdentNode(identifier) == [op |-> "ident", identifier |-> identifier]
ContextIdentNode(identifier) == [op |-> "context_ident", identifier |-> identifier]
IdentIndexNode(identifier, index) ==
    [op |-> "ident_index", identifier |-> identifier, index |-> index]
IdentDeclarationNode(identifier, token) ==
    [op |-> "declaration", identifier |-> identifier, token |-> token]
AssignNode(identifier, expr) ==
    [op |-> "assign", identifier |-> identifier, expr |-> expr]
ReturnNode(returns) == [op |-> "return", returns |-> returns]
CallNode(func_name, actual_params) ==
    [op |-> "call", func_name |-> func_name, actual_params |-> actual_params,
     func_symbol |-> None]
FunctionNode(func_name, params) ==
    [op |-> "function", func_name |-> func_name, params |-> params]
CondStatNode(condition) == [op |-> "cond", condition |-> condition]
LoopStatNode(condition) == [op |-> "loop", condition |-> condition]
EntryBlockNode == [op |-> "entry_block"]
TypeNode(token) == [op |-> "type", token |-> token]
ArrayIdentNode(identifier) == [op |-> "array_ident", identifier |-> identifier]
ArrayNumNode(values) == [op |-> "array", values |-> values]
BinOpNode(left, right) == [op |-> "binop", left |-> left, right |-> right]
UnaryOpNode(expr) == [op |-> "unary_op", expr |-> expr]
SqrtNode(sqrt_value) == [op |-> "sqrt", sqrt_value |-> sqrt_value]
MallocNode(num_bytes) == [op |-> "malloc", num_bytes |-> num_bytes]
PrintfNode(flag, val_addr) == [op |-> "printf", flag |-> flag, val_addr |-> val_addr]
MultiAssignNode(identifier, call) ==
    [op |-> "multi_assign", identifier |-> identifier, call |-> call]

\* ------------------------------------------------------ expression visits
travel_integer(sc, c, node) == Ok(I32, node, sc, c)

travel_felt(sc, c, node) == Ok(Felt, node, sc, c)

travel_ident(sc, c, node) ==
    IF node.identifier.tag = "Id"
    THEN LET name == node.identifier.name
             ident == lookup(sc, c, name)
         IN IF ident = None
            THEN Err("identifier Undeclared variable", node, sc, c)
            ELSE IF ident.kind = "IdentSymbol"
            THEN IF ident.size # <<>>
                 THEN Ok(number_from_token(ident.ty, ident.size[1]),
                         [node EXCEPT !.identifier = ArrayId(name)], sc, c)
                 ELSE Ok(NumberFrom(ident.ty), node, sc, c)
            ELSE Panic("ident not support symbol type", node, sc, c)
    ELSE Err("Invalid identifier found travel_ident", node, sc, c)

\* a travel_context_ident that never looks the name up
travel_context_ident_Unchecked(sc, c, node) ==
    IF node.identifier.tag = "Cid"
    THEN Ok(Nil, node, sc, c)
    ELSE Err("Invalid identifier found travel_context_ident", node, sc, c)

travel_context_ident(sc, c, node) ==
    IF node.identifier.tag = "Cid"
    THEN IF lookup(sc, c, node.identifier.name) = None
         THEN Err("identifier Undeclared variable", node, sc, c)
         ELSE Ok(Nil, node, sc, c)
    ELSE Err("Invalid identifier found travel_context_ident", node, sc, c)

\* Traversal::travel restricted to the value-producing nodes
RECURSIVE travel(_, _, _)
travel_ident_index(sc, c, node) ==
    IF node.identifier.tag = "Id"
    THEN IF lookup(sc, c, node.identifier.name) = None
         THEN Err("identifier Undeclared variable", node, sc, c)
         ELSE LET value == travel(sc, c, node.index)
              IN [value EXCEPT !.node = [node EXCEPT !.index = value.node]]
    ELSE Err("Invalid identifier found travel_context_ident", node, sc, c)

travel_type(sc, c, node) == Ok(NumberFrom(node.token), node, sc, c)

travel_array_ident(sc, c, node) == Ok(Nil, node, sc, c)

\* the type of an array literal is the type of its first value
travel_array(sc, c, node) == Ok(NumberFrom(node.values[1]), node, sc, c)

travel_binop(sc, c, node) ==
    LET left == travel(sc, c, node.left)
        lnode == [node EXCEPT !.left = left.node]
        right == travel(sc, c, node.right)
        rnode == [lnode EXCEPT !.right = right.node]
    IN IF left.st # "Ok" THEN [left EXCEPT !.node = lnode]
       ELSE IF right.st # "Ok" THEN [right EXCEPT !.node = rnode]
       ELSE Ok(NumberFrom(binop_number_type(left.val, right.val)), rnode, sc, c)

travel_unary_op(sc, c, node) ==
    LET value == travel(sc, c, node.expr)
    IN [value EXCEPT !.node = [node EXCEPT !.expr = value.node]]

travel_sqrt(sc, c, node) ==
    LET value == travel(sc, c, node.sqrt_value)
    IN [value EXCEPT !.node = [node EXCEPT !.sqrt_value = value.node]]

travel_malloc(sc, c, node) ==
    LET value == travel(sc, c, node.num_bytes)
    IN [value EXCEPT !.node = [node EXCEPT !.num_bytes = value.node]]

travel_printf(sc, c, node) ==
    LET flag == travel(sc, c, node.flag)
        fnode == [node EXCEPT !.flag = flag.node]
        ret == travel(sc, c, node.val_addr)
    IN IF flag.st # "Ok" THEN [flag EXCEPT !.node = fnode]
       ELSE [ret EXCEPT !.node = [fnode EXCEPT !.val_addr = ret.node]]

RECURSIVE travel_call(_, _, _)

\* Traversal::travel: the handler of the node's kind
travel(sc, c, node) ==
    CASE node.op = "felt" -> travel_felt(sc, c, node)
      [] node.op = "integer" -> travel_integer(sc, c, node)
      [] node.op = "ident" -> travel_ident(sc, c, node)
      [] node.op = "context_ident" -> travel_context_ident(sc, c, node)
      [] node.op = "ident_index" -> travel_ident_index(sc, c, node)
      [] node.op = "type" -> travel_type(sc, c, node)
      [] node.op = "array_ident" -> travel_array_ident(sc, c, node)
      [] node.op = "array" -> travel_array(sc, c, node)
      [] node.op = "binop" -> travel_binop(sc, c, node)
      [] node.op = "unary_op" -> travel_unary_op(sc, c, node)
      [] node.op = "sqrt" -> travel_sqrt(sc, c, node)
      [] node.op = "malloc" -> travel_malloc(sc, c, node)
      [] node.op = "printf" -> travel_printf(sc, c, node)
      [] node.op = "call" -> travel_call(sc, c, node)

\* ------------------------------------------------------- statement visits
\* a duplicate check made for scalar declarations only
IsDuplicate_ScalarOnly(sc, c, node) ==
    lookup(sc, c, node.identifier.name) # None /\ node.token.k # "Array"

\* a duplicate check that looks at the current scope only (shadowing allowed)
IsDuplicate_CurrentOnly(sc, c, node) == node.identifier.name \in DOMAIN sc[c].symbols

\* the duplicate check of travel_declaration
IsDuplicate(sc, c, node) == lookup(sc, c, node.identifier.name) # None

travel_declaration(sc, c, node) ==
    IF node.identifier.tag = "Id"
    THEN LET name == node.identifier.name
         IN IF IsDuplicate(sc, c, node)
            THEN Err("Found duplicate variable declaration", node, sc, c)
            ELSE IF node.token.k = "Array"
            THEN LET builtin == get(sc, c, ElemToken(node.token))
                 IN IF builtin = None
                    THEN Panic("SymbolTable::get: no builtin", node, sc, c)
                    ELSE IF builtin.kind = "BuiltInSymbol"
                    THEN Ok(Nil, node,
                            insert(sc, c, IdentSymbol(name, builtin.ty, <<node.token.len>>)), c)
                    ELSE Ok(Nil, node, sc, c)
            ELSE LET builtin == get(sc, c, node.token)
                 IN IF builtin = None
                    THEN Panic("SymbolTable::get: no builtin", node, sc, c)
                    ELSE IF builtin.kind = "BuiltInSymbol"
                    THEN Ok(Nil, node, insert(sc, c, IdentSymbol(name, builtin.ty, <<>>)), c)
                    ELSE Panic("Invalid builtin type", node, sc, c)
    ELSE Ok(Nil, node, sc, c)

\* a re-tagging of the assignment target with the test on the length inverted
AssignTarget_Inverted(symbol, identifier) ==
    IF identifier.tag = "Id" /\ symbol.kind = "IdentSymbol" /\ symbol.size = <<>>
    THEN ArrayId(identifier.name) ELSE identifier

\* the target of travel_assign after the visit
AssignTarget(symbol, identifier) ==
    IF identifier.tag = "Id" /\ symbol.kind = "IdentSymbol" /\ symbol.size # <<>>
    THEN ArrayId(identifier.name) ELSE identifier

travel_assign(sc, c, node) ==
    LET name == node.identifier.name
        symbol == lookup(sc, c, name)
        target == AssignTarget(symbol, node.identifier)
        value == travel(sc, c, node.expr)
    IN IF node.identifier.tag \in {"Id", "Cid"} /\ symbol = None
       THEN Err("assign Undeclared variable", node, sc, c)
       ELSE [value EXCEPT !.node = [node EXCEPT !.identifier = target,
                                                !.expr = value.node]]

\* the loop of travel_return from position i on; only IdentNode returns are looked at
RECURSIVE ReturnsFrom(_, _, _, _)
ReturnsFrom(sc, c, node, i) ==
    IF i > Len(node.returns) THEN Ok(Nil, node, sc, c)
    ELSE LET ret == node.returns[i]
         IN IF ret.op = "ident"
            THEN LET name == to_string(ret.identifier)
                     symbol == lookup(sc, c, name)
                 IN IF symbol = None
                    THEN Err("assign Undeclared variable", node, sc, c)
                    ELSE IF symbol.kind = "IdentSymbol" /\ symbol.size # <<>>
                    THEN ReturnsFrom(sc, c,
                            [node EXCEPT !.returns[i].identifier = ArrayId(symbol.name)],
                            i + 1)
                    ELSE ReturnsFrom(sc, c, node, i + 1)
            ELSE ReturnsFrom(sc, c, node, i + 1)

travel_return(sc, c, node) == ReturnsFrom(sc, c, node, 1)

\* the loop of travel_call over the actual parameters from position i on
RECURSIVE ActualsFrom(_, _, _, _, _)
ActualsFrom(sc, c, node, i, actual_types) ==
    IF i > Len(node.actual_params) THEN Ok(actual_types, node, sc, c)
    ELSE LET res == travel(sc, c, node.actual_params[i])
             visited == [node EXCEPT !.actual_params[i] = res.node]
         IN IF res.st # "Ok" THEN [res EXCEPT !.node = visited]
            ELSE ActualsFrom(sc, c, visited, i + 1, Append(actual_types, res.val))

\* a comparison that only looks for a missing actual parameter
FirstBad_TypesIgnored(params, actual_types) ==
    IF Len(params) > Len(actual_types) THEN Len(actual_types) + 1 ELSE 0

\* the first formal parameter position at which travel_call stops, 0 if none
FirstBad(params, actual_types) ==
    LET bad == {i \in 1..Len(params) :
                   \/ i > Len(actual_types)
                   \/ NumberFrom(params[i].ty) # actual_types[i]}
    IN IF bad = {} THEN 0 ELSE CHOOSE i \in bad : \A j \in bad : i <= j

\* a call of an unresolved name let through
NotFound_Accepted(visited, sc, c) == Ok(Nil, visited, sc, c)

\* the None arm of travel_call's match on the looked-up callee
NotFound(visited, sc, c) == Panic("not found function", visited, sc, c)

travel_call(sc, c, node) ==
    LET symbol == lookup(sc, c, to_string(node.func_name))
        actuals == ActualsFrom(sc, c, node, 1, <<>>)
        actual_types == actuals.val
        visited == actuals.node
    IN IF actuals.st # "Ok" THEN actuals
       ELSE IF symbol = None THEN NotFound(visited, sc, c)
       ELSE IF symbol.kind = "FuncSymbol"
       THEN LET bad == FirstBad(symbol.params, actual_types)
            IN IF bad = 0
               THEN Ok(Nil, [visited EXCEPT !.func_symbol = symbol], sc, c)
               ELSE IF bad > Len(actual_types)
               THEN Panic("called Option::unwrap() on a None value", visited, sc, c)
               ELSE Panic("function params type not match", visited, sc, c)
       ELSE Panic("not support symbol for function", visited, sc, c)

\* the loop of travel_multi_assign over the targets from position i on: plain
\* and context identifiers are looked up and left as they are, any other
\* target is travelled
RECURSIVE TargetsFrom(_, _, _, _)
TargetsFrom(sc, c, node, i) ==
    IF i > Len(node.identifier) THEN Ok(Nil, node, sc, c)
    ELSE LET target == node.identifier[i]
         IN IF target.op \in {"ident", "context_ident"}
            THEN IF lookup(sc, c, to_string(target.identifier)) = None
                 THEN Err("assign Undeclared variable", node, sc, c)
                 ELSE TargetsFrom(sc, c, node, i + 1)
            ELSE LET res == travel(sc, c, target)
                     visited == [node EXCEPT !.identifier[i] = res.node]
                 IN IF res.st # "Ok" THEN [res EXCEPT !.node = visited]
                    ELSE TargetsFrom(sc, c, visited, i + 1)

travel_multi_assign(sc, c, node) ==
    LET targets == TargetsFrom(sc, c, node, 1)
        call == travel(sc, c, targets.node.call)
        visited == [targets.node EXCEPT !.call = call.node]
    IN IF targets.st # "Ok" THEN targets
       ELSE IF call.st # "Ok" THEN [call EXCEPT !.node = visited]
       ELSE Ok(Nil, visited, sc, c)

\* the parameter loop of travel_function: the (name, type) list of the symbol
ParamSymbols(params) ==
    [i \in 1..Len(params) |->
        [name |-> to_string(params[i].identifier), ty |-> params[i].token]]

\* a function scope that starts without the formal parameters
ParamScope_Empty(params) == [n \in {} |-> None]

\* the parameter loop of travel_function: the HashMap the new scope starts from
ParamScope(params) ==
    LET names == {to_string(params[i].identifier) : i \in 1..Len(params)}
        lastOf(n) == CHOOSE i \in 1..Len(params) :
                        /\ to_string(params[i].identifier) = n
                        /\ \A j \in 1..Len(params) :
                              to_string(params[j].identifier) = n => j <= i
    IN [n \in names |->
          LET param == params[lastOf(n)]
          IN IdentSymbol(n, param.token,
                         IF param.token.k = "Array" THEN <<param.token.len>> ELSE <<>>)]

\* the parameter loop of travel_function: array parameters are re-tagged
ParamNodes(params) ==
    [i \in 1..Len(params) |->
        IF params[i].token.k = "Array"
        THEN [params[i] EXCEPT !.identifier = ArrayId(to_string(params[i].identifier))]
        ELSE params[i]]

\* a function scope hung under the root instead of the current scope
FunctionEnclosing_Root(sc, c) == 1

\* the enclosing scope handed to the scope of a function body
FunctionEnclosing(sc, c) == c

\* a function symbol registered in the root scope wherever it is defined
RegisterScope_Root(sc, c) == 1

\* a function symbol registered in the function's own, new scope
RegisterScope_Own(sc, c) == Len(sc) + 1

\* the scope travel_function registers the function symbol in: the scope that
\* is current when the definition is visited
RegisterScope(sc, c) == c

\* a nested scope that keeps the level of its enclosing scope
NextLevel_Same(scope_level) == scope_level

\* the level of a scope created under a scope of level scope_level
NextLevel(scope_level) == scope_level + 1

\* travel_function up to the traversal of the body
travel_function(sc, c, node) ==
    IF node.func_name.tag = "Id"
    THEN LET func_name == node.func_name.name
             func_symbol == FuncSymbol(func_name, ParamSymbols(node.params))
             cur_scope == [SymbolTable(func_name, NextLevel(sc[c].scope_level),
                                       FunctionEnclosing(sc, c))
                             EXCEPT !.symbols = ParamScope(node.params)]
             created == Append(sc, cur_scope)
             r == RegisterScope(sc, c)
             registered == [created EXCEPT ![r].symbols =
                               Put(created[r].symbols, func_name, func_symbol)]
         IN Ok(Nil, [node EXCEPT !.params = ParamNodes(node.params)],
               registered, Len(sc) + 1)
    ELSE Ok(Nil, node, sc, c)

\* a function definition that leaves the cursor on the scope of its body
function_exit_Stay(sc, c) == [sc |-> sc, cur |-> c]

\* travel_function after the body returned Ok: back to the enclosing scope;
\* the scope of the body has no owner left and is dropped
function_exit(sc, c) ==
    [sc |-> SubSeq(sc, 1, Len(sc) - 1), cur |-> sc[c].enclosing_scope]

\* travel_entry_block up to the traversal of its declarations
travel_entry_block(sc, c, node) ==
    Ok(Nil, node, Append(sc, SymbolTable("entry", NextLevel(sc[c].scope_level), c)), Len(sc) + 1)

\* travel_entry_block after its compound statement returned: nothing is restored
entry_block_exit(sc, c) == [sc |-> sc, cur |-> c]

\* travel_cond and travel_loop up to the traversal of the bodies
\* a conditional that opens a scope of its own for its bodies
travel_cond_Scoped(sc, c, node) ==
    LET value == travel(sc, c, node.condition)
        opened == Append(value.sc, SymbolTable("cond", sc[c].scope_level + 1, c))
    IN [value EXCEPT !.node = [node EXCEPT !.condition = value.node],
                     !.sc = opened, !.cur = Len(opened)]

travel_cond(sc, c, node) ==
    LET value == travel(sc, c, node.condition)
    IN [value EXCEPT !.node = [node EXCEPT !.condition = value.node]]

travel_loop(sc, c, node) ==
    LET value == travel(sc, c, node.condition)
    IN [value EXCEPT !.node = [node EXCEPT !.condition = value.node]]

\* ------------------------------------------------------------ construction
\* inf_var_insert!: length 1 is a scalar, any other length an array type
inf_var_insert(sc, input) ==
    IF input.length = 1
    THEN insert(sc, 1, IdentSymbol(input.name, Felt, <<>>))
    ELSE insert(sc, 1, IdentSymbol(input.name, Array(Felt, input.length), <<>>))

RECURSIVE InsertVars(_, _, _)
InsertVars(sc, inputs, i) ==
    IF i > Len(inputs) THEN sc
    ELSE InsertVars(inf_var_insert(sc, inputs[i]), inputs, i + 1)

RECURSIVE InsertCtx(_, _, _)
InsertCtx(sc, ctx, i) ==
    IF i > Len(ctx) THEN sc
    ELSE InsertCtx(insert(sc, 1, IdentSymbol(ctx[i], Felt, <<>>)), ctx, i + 1)

\* SymTableGen::new
new(p) ==
    LET root == <<SymbolTable("Global Scope", 1, 0)>>
    IN InsertVars(InsertCtx(InsertVars(root, p.inputs, 1), p.ctx, 1), p.outputs, 1)

\* ------------------------------------------------------------------ inputs
Prophets ==
    {[inputs |-> <<>>, ctx |-> <<>>, outputs |-> <<>>]}
    \cup {[inputs |-> <<[name |-> "x", length |-> l]>>, ctx |-> <<"f">>,
            outputs |-> <<[name |-> "g", length |-> 1]>>] : l \in 1..MaxLen}

Types == {Felt, Array(Felt, MaxLen)}
DeclNodes == {IdentDeclarationNode(Id(n), t) : n \in ParamNames, t \in Types}
ParamLists ==
    {<<>>} \cup {<<IdentDeclarationNode(Id("x"), t)>> : t \in Types}
    \cup {<<IdentDeclarationNode(Id("x"), Felt), IdentDeclarationNode(Id("x"), Array(Felt, MaxLen))>>}
\* top-level functions f and g; the functions defined inside a body are named g
FunctionNodes(level) ==
    {FunctionNode(Id("f"), ps) : ps \in IF level = 1 THEN ParamLists ELSE {}}
    \cup {FunctionNode(Id("g"), <<>>)}
Exprs ==
    {FeltNumNode, IdentNode(Id("x")), IdentNode(Id("g")), ContextIdentNode(Cid("x")),
     IdentIndexNode(Id("x"), IntegerNumNode), IdentIndexNode(Id("f"), IdentNode(Id("x")))}
\* operator, builtin-call, literal and call expressions on the right-hand side
ValueNodes ==
    {BinOpNode(UnaryOpNode(IdentNode(Id("x"))), ArrayNumNode(<<Felt, Felt>>)),
     SqrtNode(MallocNode(IntegerNumNode)),
     CallNode(Id("f"), <<ArrayIdentNode(ArrayId("x"))>>)}
AssignNodes ==
    {AssignNode(t, e) : t \in {Id("x"), Id("f"), Cid("x")},
                        e \in {FeltNumNode, IdentNode(Id("x"))}}
    \cup {AssignNode(Id("x"), e) : e \in ValueNodes}
PrintfNodes == {PrintfNode(FeltNumNode, IdentNode(Id("x")))}
MultiAssignNodes ==
    {MultiAssignNode(ts, CallNode(Id(n), <<>>)) :
        ts \in {<<IdentNode(Id("x")), ContextIdentNode(Cid("f"))>>,
                <<IdentIndexNode(Id("x"), IdentNode(Id("x"))), IdentNode(Id("g"))>>},
        n \in {"f"}}
ReturnNodes ==
    {ReturnNode(rs) : rs \in {<<IdentNode(Id("x"))>>, <<IdentNode(Id("g"))>>,
                              <<IdentNode(Id("x")), IdentNode(Id("f"))>>,
                              <<IdentIndexNode(Id("g"), IntegerNumNode)>>}}
ActualLists ==
    {<<>>, <<FeltNumNode>>, <<IntegerNumNode>>, <<IdentNode(Id("x"))>>,
     <<FeltNumNode, IdentNode(Id("x"))>>}
CallNodes == {CallNode(Id(n), as) : n \in Names, as \in ActualLists}
CondNodes == {CondStatNode(e) : e \in Exprs}
LoopNodes == {LoopStatNode(e) : e \in {FeltNumNode, IdentNode(Id("x"))}}

\* the programs of the two-pass runs are built from these nodes
TwiceNodes ==
    {IdentDeclarationNode(Id("x"), t) : t \in Types}
    \cup {FunctionNode(Id("f"), <<IdentDeclarationNode(Id("x"), Array(Felt, MaxLen))>>),
          EntryBlockNode,
          AssignNode(Id("x"), FeltNumNode), AssignNode(Id("x"), IdentNode(Id("x"))),
          ReturnNode(<<IdentNode(Id("x"))>>),
          CallNode(Id("f"), <<IdentNode(Id("x"))>>)}

\* -------------------------------------------------------------- the pass
\* pass 0: one pass over a program chosen node by node;
\* pass 1: the same, the visited (mutated) tree is kept in tree, preorder with
\*         exit markers; pass 2: a fresh analyzer visits the kept tree first
Frame(kind) == [kind |-> kind, ph |-> "declarations"]
Top == stack[Len(stack)]
InCompound(stk) == [stk EXCEPT ![Len(stk)].ph = "compound"]
Nesting(stk) == Cardinality({i \in 1..Len(stk) : stk[i].kind \in {"cond", "loop"}})
Pop(stk) == SubSeq(stk, 1, Len(stk) - 1)

\* the nodes of kind op that can be visited next, out of the candidates S
Input(S, op) ==
    IF pass = 0 THEN S
    ELSE IF pass = 1
    THEN IF Len(tree) < MaxNodes THEN S \cap TwiceNodes ELSE {}
    ELSE IF pos <= Len(first) /\ first[pos].op = op THEN {first[pos]} ELSE {}

\* the end of the children of the open construct can come next
AtExit(op) ==
    \/ pass = 0
    \/ pass = 1 /\ Len(tree) < MaxNodes
    \/ pass = 2 /\ pos <= Len(first) /\ first[pos].op = op

\* loops over children that drop an Err instead of returning it
Visiting_ErrDropped(res, stk) == res \in {"Running", "Err"} /\ stk # <<>>

\* the loops over children go on while every visit so far returned Ok
Visiting(res, stk) == res = "Running" /\ stk # <<>>

AtDeclaration == Visiting(result, stack) /\ Top.ph = "declarations"
AtStatement == Visiting(result, stack) /\ Top.kind # "entry"

Start(p, n) ==
    /\ prophet = p
    /\ scopes = new(p)
    /\ current_scope = 1
    /\ stack = <<Frame("entry")>>
    /\ result = "Running"
    /\ msg = ""
    /\ last = [op |-> "new"]
    /\ pass = n
    /\ tree = <<>>
    /\ first = <<>>
    /\ pos = 1

Init == \E p \in Prophets : Start(p, 0)

InitTwice == \E p \in Prophets : Start(p, 1)

Record(node) ==
    /\ tree' = IF pass = 0 THEN tree ELSE Append(tree, node)
    /\ pos' = IF pass = 2 THEN pos + 1 ELSE pos
    /\ UNCHANGED <<prophet, pass, first>>

\* the visit returned o; the traversal goes on with stack stk when it is Ok
Step(o, stk) ==
    /\ scopes' = o.sc
    /\ current_scope' = o.cur
    /\ result' = IF o.st = "Ok" THEN "Running" ELSE o.st
    /\ msg' = o.msg
    /\ last' = o.node
    /\ stack' = IF o.st = "Ok" THEN stk ELSE stack
    /\ Record(o.node)

\* the traversal of an open construct returned Ok
Exit(o, stk, res, op) ==
    /\ AtExit(op)
    /\ scopes' = o.sc
    /\ current_scope' = o.cur
    /\ result' = res
    /\ stack' = stk
    /\ last' = [op |-> op]
    /\ Record([op |-> op])
    /\ UNCHANGED msg

\* the consequences and alternatives of a conditional and the consequences of
\* a loop are travelled like any node, a declaration included
InBody == Visiting(result, stack) /\ Top.kind \in {"cond", "loop"}

VisitDeclaration ==
    /\ AtDeclaration \/ InBody
    /\ \E node \in Input(DeclNodes, "declaration") :
          Step(travel_declaration(scopes, current_scope, node), stack)

VisitFunction ==
    /\ AtDeclaration
    /\ scopes[current_scope].scope_level < MaxDepth
    /\ Top.kind \in {"entry", "function"}
    /\ \E node \in Input(FunctionNodes(scopes[current_scope].scope_level), "function") :
          Step(travel_function(scopes, current_scope, node),
               Append(stack, Frame("function")))

ExitFunction ==
    /\ Visiting(result, stack)
    /\ Top.kind = "function"
    /\ Exit(function_exit(scopes, current_scope), Pop(stack), "Running", "function_exit")

VisitEntryBlock ==
    /\ Visiting(result, stack)
    /\ Top.kind = "entry"
    /\ \E node \in Input({EntryBlockNode}, "entry_block") :
          Step(travel_entry_block(scopes, current_scope, node),
               Append(stack, Frame("entry_block")))

\* travel_entry_block and with it travel_entry return Ok
ExitEntry ==
    /\ Visiting(result, stack)
    /\ Top.kind = "entry_block"
    /\ Exit(entry_block_exit(scopes, current_scope), <<>>, "Ok", "entry_exit")

VisitAssign ==
    /\ AtStatement
    /\ \E node \in Input(AssignNodes, "assign") :
          Step(travel_assign(scopes, current_scope, node), InCompound(stack))

VisitMultiAssign ==
    /\ AtStatement
    /\ \E node \in Input(MultiAssignNodes, "multi_assign") :
          Step(travel_multi_assign(scopes, current_scope, node), InCompound(stack))

VisitPrintf ==
    /\ AtStatement
    /\ \E node \in Input(PrintfNodes, "printf") :
          Step(travel_printf(scopes, current_scope, node), InCompound(stack))

VisitReturn ==
    /\ AtStatement
    /\ \E node \in Input(ReturnNodes, "return") :
          Step(travel_return(scopes, current_scope, node), InCompound(stack))

VisitCall ==
    /\ AtStatement
    /\ \E node \in Input(CallNodes, "call") :
          Step(travel_call(scopes, current_scope, node), InCompound(stack))

VisitCond ==
    /\ AtStatement
    /\ Nesting(stack) < MaxNest
    /\ \E node \in Input(CondNodes, "cond") :
          Step(travel_cond(scopes, current_scope, node),
               Append(InCompound(stack), [kind |-> "cond", ph |-> "compound"]))

ExitCond ==
    /\ Visiting(result, stack)
    /\ Top.kind = "cond"
    /\ Exit([sc |-> scopes, cur |-> current_scope], Pop(stack), "Running", "cond_exit")

VisitLoop ==
    /\ AtStatement
    /\ Nesting(stack) < MaxNest
    /\ \E node \in Input(LoopNodes, "loop") :
          Step(travel_loop(scopes, current_scope, node),
               Append(InCompound(stack), [kind |-> "loop", ph |-> "compound"]))

ExitLoop ==
    /\ Visiting(result, stack)
    /\ Top.kind = "loop"
    /\ Exit([sc |-> scopes, cur |-> current_scope], Pop(stack), "Running", "loop_exit")

\* a fresh analyzer (same prophet) is handed the tree the first pass left
StartSecondPass ==
    /\ pass = 1
    /\ result = "Ok"
    /\ scopes' = new(prophet)
    /\ current_scope' = 1
    /\ stack' = <<Frame("entry")>>
    /\ result' = "Running"
    /\ msg' = ""
    /\ last' = [op |-> "new"]
    /\ pass' = 2
    /\ first' = tree
    /\ tree' = <<>>
    /\ pos' = 1
    /\ UNCHANGED prophet

Next ==
    \/ VisitDeclaration
    \/ VisitFunction
    \/ ExitFunction
    \/ VisitEntryBlock
    \/ ExitEntry
    \/ VisitAssign
    \/ VisitMultiAssign
    \/ VisitPrintf
    \/ VisitReturn
    \/ VisitCall
    \/ VisitCond
    \/ ExitCond
    \/ VisitLoop
    \/ ExitLoop

Spec == Init /\ [][Next]_vars

NextTwice ==
    \/ VisitDeclaration
    \/ VisitFunction
    \/ ExitFunction
    \/ VisitEntryBlock
    \/ ExitEntry
    \/ VisitAssign
    \/ VisitReturn
    \/ VisitCall
    \/ StartSecondPass

SpecTwice == InitTwice /\ [][NextTwice]_vars

\* ------------------------------------------------------------------ claims
Cur == current_scope
Bound(name) == lookup(scopes, Cur, name)
RefNames == Names \cup {"y"}
Undeclared(o) ==
    o.st = "Err" /\ o.msg \in {"identifier Undeclared variable", "assign Undeclared variable"}

\* C1: a declaration of a name that is already bound as a variable in the current
\* scope returns the duplicate-declaration error, whatever the two types are, and
\* leaves every scope (so the first binding) as it was.
C1_DuplicateDeclaration ==
    [][(/\ last'.op = "declaration"
        /\ last'.identifier.name \in DOMAIN scopes[Cur].symbols
        /\ scopes[Cur].symbols[last'.identifier.name].kind = "IdentSymbol")
       => (/\ result' = "Err"
           /\ msg' = "Found duplicate variable declaration"
           /\ scopes' = scopes
           /\ current_scope' = current_scope)]_vars

\* an array declared in the entry block, then declared again there as a scalar
C1_Witness ==
    /\ last.op = "declaration"
    /\ result = "Err"
    /\ msg = "Found duplicate variable declaration"
    /\ Len(stack) = 2
    /\ Top.kind = "entry_block"
    /\ last.token.k = "Felt"
    /\ last.identifier.name \in DOMAIN scopes[Cur].symbols
    /\ scopes[Cur].symbols[last.identifier.name].size # <<>>

\* C2: in every state of the pass, a reference to a name that no scope of the
\* chain binds fails with the undeclared-variable error: plain identifier,
\* indexed identifier, context identifier, assignment target (plain or context)
\* and identifier returned at any position of a return statement; and a return
\* statement that was visited with a plain or indexed identifier of an unbound
\* name among its returned expressions ended the pass with that error.
C2_Undeclared ==
    /\ last.op = "return"
       => \A i \in 1..Len(last.returns) :
             (/\ last.returns[i].op \in {"ident", "ident_index"}
              /\ Bound(last.returns[i].identifier.name) = None)
             => (result = "Err" /\ msg = "assign Undeclared variable")
    /\ \A n \in RefNames :
           Bound(n) = None =>
             /\ Undeclared(travel(scopes, Cur, IdentNode(Id(n))))
             /\ Undeclared(travel(scopes, Cur, ContextIdentNode(Cid(n))))
             /\ \A e \in Exprs :
                  /\ Undeclared(travel(scopes, Cur, IdentIndexNode(Id(n), e)))
                  /\ Undeclared(travel_assign(scopes, Cur, AssignNode(Id(n), e)))
                  /\ Undeclared(travel_assign(scopes, Cur, AssignNode(Cid(n), e)))
                  /\ Undeclared(travel_return(scopes, Cur, ReturnNode(<<IdentNode(Id(n))>>)))
                  /\ Undeclared(travel_return(scopes, Cur, ReturnNode(<<e, IdentNode(Id(n))>>)))
             /\ Undeclared(travel(scopes, Cur, BinOpNode(IdentNode(Id(n)), FeltNumNode)))
             /\ Undeclared(travel(scopes, Cur, PrintfNode(FeltNumNode, IdentNode(Id(n)))))
             /\ \A call \in {CallNode(Id("f"), <<>>)} :
                  /\ Undeclared(travel_multi_assign(scopes, Cur,
                                    MultiAssignNode(<<IdentNode(Id(n))>>, call)))
                  /\ Undeclared(travel_multi_assign(scopes, Cur,
                                    MultiAssignNode(<<ContextIdentNode(Cid(n))>>, call)))

\* scenario B: an assignment in the entry block to a name declared nowhere
C2_Witness ==
    /\ last.op = "assign"
    /\ result = "Err"
    /\ msg = "assign Undeclared variable"
    /\ Top.kind = "entry_block"
    /\ Bound(last.identifier.name) = None

\* C3: a declaration that returned Ok bound the name with the declared length
\* (none for a scalar), and every use of a name that resolves to a variable
\* (plain reference, target of an assignment or of a multi-assignment, returned
\* identifier, also twice in one statement) carries the array tag when the
\* binding has a length and keeps the scalar tag when it has none.
C3_Tagged ==
    /\ (last.op = "multi_assign" /\ result = "Running") =>
          \A i \in 1..Len(last.identifier) :
             LET target == last.identifier[i]
             IN (target.op = "ident"
                   /\ Bound(target.identifier.name).kind = "IdentSymbol")
                => target.identifier.tag =
                      IF Bound(target.identifier.name).size # <<>> THEN "ArrayId" ELSE "Id"
    /\ (last.op = "declaration" /\ result = "Running") =>
          Bound(last.identifier.name).size =
             IF last.token.k = "Array" THEN <<last.token.len>> ELSE <<>>
    /\ \A n \in Names :
         LET symbol == Bound(n)
             tag == IF symbol.size # <<>> THEN "ArrayId" ELSE "Id"
             ident == travel(scopes, Cur, IdentNode(Id(n)))
             assign == travel_assign(scopes, Cur, AssignNode(Id(n), IdentNode(Id(n))))
             return == travel_return(scopes, Cur,
                                     ReturnNode(<<IdentNode(Id(n)), IdentNode(Id(n))>>))
         IN symbol.kind = "IdentSymbol" =>
              /\ ident.st = "Ok" /\ assign.st = "Ok" /\ return.st = "Ok"
              /\ ident.node.identifier.tag = tag
              /\ assign.node.identifier.tag = tag
              /\ assign.node.expr.identifier.tag = tag
              /\ return.node.returns[1].identifier.tag = tag
              /\ return.node.returns[2].identifier.tag = tag

\* an array assigned to itself: target and value are both re-tagged
C3_Witness ==
    /\ last.op = "assign"
    /\ result = "Running"
    /\ last.identifier.tag = "ArrayId"
    /\ last.expr.op = "ident"
    /\ last.expr.identifier.tag = "ArrayId"
    /\ Bound(last.identifier.name).size = <<MaxLen>>

\* C4: the second pass of a fresh analyzer over the tree an accepted first pass
\* left never fails and leaves every node as the first pass left it.
C4_Idempotent ==
    pass = 2 =>
      /\ result \in {"Running", "Ok"}
      /\ \A i \in 1..Len(tree) : tree[i] = first[i]

Min(a, b) == IF a < b THEN a ELSE b
C5_Calls == {CallNode(Id(n), as) : n \in Names, as \in ActualLists}

\* C5: a call to a name that resolves to a function, with actual parameters that
\* are all visited Ok: a position where the type of the actual differs from the
\* declared type of the formal aborts the pass with the type-mismatch panic and
\* leaves the call node without symbol; as many actuals as formals, all of the
\* declared types, returns Ok with the resolved symbol on the call node.
C5_CallTypes ==
    \A node \in C5_Calls \cup {last} :
       node.op = "call" =>
         LET symbol == Bound(to_string(node.func_name))
             blank == [node EXCEPT !.func_symbol = None]
             actual == [i \in 1..Len(node.actual_params) |->
                           travel(scopes, Cur, node.actual_params[i])]
             o == travel_call(scopes, Cur, blank)
         IN (symbol.kind = "FuncSymbol" /\ \A i \in DOMAIN actual : actual[i].st = "Ok") =>
              /\ (\E i \in 1..Min(Len(symbol.params), Len(actual)) :
                     NumberFrom(symbol.params[i].ty) # actual[i].val)
                 => (/\ o.st = "Panic"
                     /\ o.msg = "function params type not match"
                     /\ o.node.func_symbol = None)
              /\ (/\ Len(symbol.params) = Len(actual)
                  /\ \A i \in 1..Len(actual) : NumberFrom(symbol.params[i].ty) = actual[i].val)
                 => (o.st = "Ok" /\ o.node.func_symbol = symbol)

\* scenario C: an array handed to a function whose parameter is a scalar felt
C5_Witness ==
    /\ last.op = "call"
    /\ result = "Panic"
    /\ msg = "function params type not match"
    /\ last.func_symbol = None
    /\ Len(last.actual_params) = 1
    /\ last.actual_params[1].op = "ident"
    /\ last.actual_params[1].identifier.tag = "ArrayId"
    /\ Bound(to_string(last.func_name)).params[1].ty = Felt

\* C6: a visited call whose number of actual parameters differs from the number
\* of formal parameters of the resolved function is rejected and the call node
\* is not annotated.
C6_CountMismatch ==
    (/\ last.op = "call"
     /\ Bound(to_string(last.func_name)).kind = "FuncSymbol"
     /\ Len(last.actual_params) # Len(Bound(to_string(last.func_name)).params))
    => (result \in {"Err", "Panic"} /\ last.func_symbol = None)

\* C7: once a visit returned an error (or panicked) no node is visited any more:
\* no scope, cursor, node or result changes after it.
C7_FirstErrorAborts ==
    [][(result \in {"Err", "Panic"}) =>
          (/\ scopes' = scopes
           /\ current_scope' = current_scope
           /\ stack' = stack
           /\ last' = last
           /\ result' = result
           /\ msg' = msg)]_vars

\* an error inside a conditional inside a function body
C7_Witness ==
    /\ result = "Err"
    /\ Len(stack) = 3
    /\ stack[2].kind = "function"
    /\ stack[3].kind = "cond"

\* C8: a variable symbol of array type carries its length, a scalar one carries
\* none; in particular a seeded input or output of length 1 is a scalar and one
\* of any other length an array of that length.
C8_LengthIffArray ==
    /\ \A i \in 1..Len(scopes) : \A n \in DOMAIN scopes[i].symbols :
         LET symbol == scopes[i].symbols[n]
         IN (symbol.kind = "IdentSymbol" /\ symbol.ty.k = "Array") =>
               symbol.size = <<symbol.ty.len>>
    /\ last.op = "new" =>
         \A i \in 1..Len(prophet.inputs) :
            scopes[1].symbols[prophet.inputs[i].name].size =
               IF prophet.inputs[i].length = 1 THEN <<>>
               ELSE <<prophet.inputs[i].length>>

\* the scope a stack frame owns: the root for the entry, one more per entry
\* block and function body
ScopeOf(i) ==
    Cardinality({j \in 1..i : stack[j].kind \in {"entry", "entry_block", "function"}})

\* C9: while a function body is being traversed, every name bound in the scope
\* of any function whose body encloses the visit, or in the root scope, resolves
\* from the current scope.
C9_EnclosingResolve ==
    \A i \in 1..Len(stack) :
       stack[i].kind \in {"entry", "function"} =>
          \A n \in DOMAIN scopes[ScopeOf(i)].symbols : Bound(n) # None

\* scenario E: inside inner (defined in outer) a return of outer's parameter
C9_Witness ==
    /\ last.op = "return"
    /\ result = "Running"
    /\ Len(stack) = 3
    /\ stack[2].kind = "function"
    /\ stack[3].kind = "function"
    /\ Cur = 3
    /\ last.returns[1].op = "ident"
    /\ last.returns[1].identifier.name \in DOMAIN scopes[2].symbols
    /\ last.returns[1].identifier.name \notin DOMAIN scopes[3].symbols
    /\ last.returns[1].identifier.name \notin DOMAIN scopes[1].symbols

\* C10: after a successful pass of a whole program the cursor is the root scope.
C10_CursorRestored == result = "Ok" => current_scope = 1

\* C11: when the traversal of a function body or of the entry block returned a
\* semantic error, the cursor is not the scope of that function or entry block
\* any more.
C11_CursorRestoredOnError ==
    result = "Err" =>
       \A i \in 1..Len(stack) :
          stack[i].kind \in {"function", "entry_block"} => current_scope # ScopeOf(i)

\* C12: a declaration whose name is not bound in the current scope but resolves
\* through an enclosing scope (seeded name, top-level declaration, parameter of
\* an enclosing function, function name) returns the duplicate-declaration
\* error and changes no scope.
C12_NoShadowing ==
    [][(/\ last'.op = "declaration"
        /\ last'.identifier.name \notin DOMAIN scopes[Cur].symbols
        /\ Bound(last'.identifier.name) # None)
       => (/\ result' = "Err"
           /\ msg' = "Found duplicate variable declaration"
           /\ scopes' = scopes
           /\ current_scope' = current_scope)]_vars

\* in the entry block, a declaration of the name of a top-level function
C12_Witness ==
    /\ last.op = "declaration"
    /\ result = "Err"
    /\ msg = "Found duplicate variable declaration"
    /\ Top.kind = "entry_block"
    /\ last.identifier.name \notin DOMAIN scopes[Cur].symbols
    /\ Bound(last.identifier.name).kind = "FuncSymbol"

\* C13: no step replaces a binding a scope already has, and the scope a
\* function definition opens has one binding per formal parameter.
C13_NoOverwrite ==
    [][/\ \A i \in 1..Min(Len(scopes), Len(scopes')) :
             \A n \in DOMAIN scopes[i].symbols :
                /\ n \in DOMAIN scopes'[i].symbols
                /\ scopes'[i].symbols[n] = scopes[i].symbols[n]
       /\ (last'.op = "function" /\ Len(scopes') = Len(scopes) + 1)
          => Cardinality(DOMAIN scopes'[Len(scopes')].symbols) = Len(last'.params)]_vars

\* actual parameters that match the formal parameters inside the function body
SelfArgs(params) ==
    [i \in 1..Len(params) |->
        IF params[i].token.k = "Array"
        THEN IdentNode(Id(to_string(params[i].identifier)))
        ELSE FeltNumNode]

\* C14: when a function definition is entered its symbol is already bound in
\* the enclosing scope, so that a call of the function visited in its body
\* (its name not being one of its parameters) is annotated with that symbol;
\* and when the definition returns the name still resolves to the function
\* symbol from the enclosing scope, where a call is annotated with it.
C14_SelfCallable ==
    [][/\ (last'.op = "function" /\ Len(scopes') = Len(scopes) + 1)
          => LET name == last'.func_name.name
                 symbol == FuncSymbol(name, ParamSymbols(last'.params))
                 call == travel_call(scopes', current_scope',
                                     CallNode(Id(name), SelfArgs(last'.params)))
             IN /\ scopes'[current_scope'].enclosing_scope = current_scope
                /\ name \in DOMAIN scopes'[current_scope].symbols
                /\ scopes'[current_scope].symbols[name] = symbol
                /\ name \notin DOMAIN scopes'[current_scope'].symbols
                   => (call.st = "Ok" /\ call.node.func_symbol = symbol)
       /\ last'.op = "function_exit"
          => LET name == scopes[current_scope].scope_name
                 symbol == lookup(scopes', current_scope', name)
                 call == travel_call(scopes', current_scope', CallNode(Id(name), <<>>))
             IN /\ symbol.kind = "FuncSymbol"
                /\ symbol.name = name
                /\ symbol.params = <<>>
                   => (call.st = "Ok" /\ call.node.func_symbol = symbol)]_vars

\* a call of f visited in the body of f and annotated
C14_Witness ==
    /\ last.op = "call"
    /\ result = "Running"
    /\ Top.kind = "function"
    /\ last.func_name.name = scopes[Cur].scope_name
    /\ last.func_symbol # None
    /\ last.func_symbol = scopes[scopes[Cur].enclosing_scope].symbols[last.func_name.name]

\* C15 as stated: a call whose callee name does not resolve from the current
\* scope when it is visited ends the pass with the function-not-found panic.
C15_NotFound ==
    [][(last'.op = "call" /\ Bound(last'.func_name.name) = None)
       => (result' = "Panic" /\ msg' = "not found function")]_vars

\* C15 amended: a call whose callee name does not resolve from the current
\* scope when it is visited never returns Ok and is never annotated; it ends
\* the pass with the function-not-found panic when all its actual parameters
\* were visited successfully, and with the error of the first failing actual
\* parameter otherwise. No scope changes.
C15_NotFoundAfterActuals ==
    [][(last'.op = "call" /\ Bound(last'.func_name.name) = None)
       => \A node \in CallNodes :
          (node.func_name = last'.func_name /\ last' = travel_call(scopes, Cur, node).node)
          =>
          LET actuals == ActualsFrom(scopes, Cur, node, 1, <<>>)
          IN /\ result' \in {"Err", "Panic"}
             /\ last'.func_symbol = None
             /\ scopes' = scopes /\ current_scope' = current_scope
             /\ actuals.st = "Ok"
                => (result' = "Panic" /\ msg' = "not found function")
             /\ actuals.st # "Ok"
                => (result' = actuals.st /\ msg' = actuals.msg)]_vars

\* a call with an actual parameter visited successfully, of a name that is not
\* bound while a function is defined at the top level
C15_Witness ==
    /\ last.op = "call"
    /\ result = "Panic"
    /\ msg = "not found function"
    /\ Len(last.actual_params) >= 1
    /\ Top.kind = "entry_block"
    /\ Bound(last.func_name.name) = None
    /\ \E n \in DOMAIN scopes[1].symbols : scopes[1].symbols[n].kind = "FuncSymbol"

\* C16: the root scope holds every input, context and output name before the
\* first visit; a step changes the bindings of the root scope only if the root
\* scope is current and the step visits a declaration or a function definition.
C16_RootFrame ==
    [][/\ last.op = "new"
          => /\ Len(scopes) = 1 /\ Cur = 1
             /\ \A i \in 1..Len(prophet.inputs) :
                   prophet.inputs[i].name \in DOMAIN scopes[1].symbols
             /\ \A i \in 1..Len(prophet.ctx) : prophet.ctx[i] \in DOMAIN scopes[1].symbols
             /\ \A i \in 1..Len(prophet.outputs) :
                   prophet.outputs[i].name \in DOMAIN scopes[1].symbols
       /\ scopes'[1] # scopes[1]
          => /\ Cur = 1
             /\ Top.kind = "entry"
             /\ last'.op \in {"declaration", "function"}]_vars

\* a function defined in the body of another function: the root is as it was
\* when the outer function was entered
C16_Witness ==
    /\ last.op = "function"
    /\ result = "Running"
    /\ Len(scopes) = 3
    /\ last.func_name.name \in DOMAIN scopes[2].symbols
    /\ scopes[2].symbols[last.func_name.name].kind = "FuncSymbol"
    /\ last.func_name.name \notin DOMAIN scopes[1].symbols

\* C17: the cursor is a scope; the root scope has level 1 and no enclosing
\* scope; every other scope has an enclosing scope created before it and is one
\* level deeper than it, so every chain is finite and ends at the root.
C17_ChainWellFormed ==
    /\ Cur \in 1..Len(scopes)
    /\ scopes[1].scope_level = 1
    /\ scopes[1].enclosing_scope = 0
    /\ \A i \in 2..Len(scopes) :
          /\ scopes[i].enclosing_scope \in 1..(i - 1)
          /\ scopes[i].scope_level = scopes[scopes[i].enclosing_scope].scope_level + 1

\* the body of a function nested in a function is being traversed
C17_Witness ==
    /\ Len(scopes) = 3
    /\ Cur = 3
    /\ scopes[3].scope_level = 3
    /\ scopes[2].scope_level = 2

\* C18: when a function definition returns, its scope is gone and the cursor
\* is the enclosing scope; a name that was bound in the function's scope only
\* (parameter or nested function) does not resolve any more: a reference or an
\* assignment to it is undeclared, a call of it is function-not-found, and a
\* declaration of it is no duplicate (at the top level it is accepted).
C18_ScopeGone ==
    [][last'.op = "function_exit"
       => /\ current_scope' = scopes[Cur].enclosing_scope
          /\ current_scope' # Cur
          /\ Len(scopes') = Len(scopes) - 1
          /\ \A n \in DOMAIN scopes[Cur].symbols :
                lookup(scopes, scopes[Cur].enclosing_scope, n) = None
                => LET ref == travel_ident(scopes', current_scope', IdentNode(Id(n)))
                       asg == travel_assign(scopes', current_scope',
                                            AssignNode(Id(n), FeltNumNode))
                       call == travel_call(scopes', current_scope', CallNode(Id(n), <<>>))
                   IN /\ lookup(scopes', current_scope', n) = None
                      /\ ref.st = "Err" /\ ref.msg = "identifier Undeclared variable"
                      /\ asg.st = "Err" /\ asg.msg = "assign Undeclared variable"
                      /\ call.st = "Panic" /\ call.msg = "not found function"
                      /\ \A ty \in Types :
                            LET decl == travel_declaration(scopes', current_scope',
                                           IdentDeclarationNode(Id(n), ty))
                            IN /\ decl.msg # "Found duplicate variable declaration"
                               /\ current_scope' = 1 => decl.st = "Ok"]_vars

\* back at the top level after a function with a parameter whose name is bound
\* nowhere else
C18_Witness ==
    /\ last.op = "function_exit"
    /\ result = "Running"
    /\ Cur = 1
    /\ \E f \in DOMAIN scopes[1].symbols :
          /\ scopes[1].symbols[f].kind = "FuncSymbol"
          /\ Len(scopes[1].symbols[f].params) >= 1
          /\ Bound(scopes[1].symbols[f].params[1].name) = None

\* C19: a visit that finds a symbol of the wrong variant never returns Ok: a
\* call of a name bound to a variable, and a reference, an assignment, an
\* indexed identifier or a returned identifier whose name is bound to a
\* function symbol, end the pass with an error or a panic.
C19_WrongVariantFatal ==
    [][/\ (last'.op = "call" /\ Bound(last'.func_name.name).kind = "IdentSymbol")
          => result' \in {"Err", "Panic"}
       /\ (/\ last'.op = "assign"
           /\ last'.identifier.tag = "Id"
           /\ Bound(last'.identifier.name).kind = "FuncSymbol")
          => result' \in {"Err", "Panic"}
       /\ (/\ last'.op = "return"
           /\ \E i \in 1..Len(last'.returns) :
                 /\ last'.returns[i].op \in {"ident", "ident_index"}
                 /\ Bound(last'.returns[i].identifier.name).kind = "FuncSymbol")
          => result' \in {"Err", "Panic"}
       /\ (/\ last'.op \in {"cond", "loop"}
           /\ last'.condition.op \in {"ident", "ident_index"}
           /\ Bound(last'.condition.identifier.name).kind = "FuncSymbol")
          => result' \in {"Err", "Panic"}]_vars

\* C20: entering and leaving a conditional or a loop changes neither the
\* cursor nor any scope; while a body of a conditional or loop is visited the
\* cursor is the scope of the enclosing block, a visit there changes no other
\* scope and removes no binding, so what it binds stays bound after the
\* statement.
C20_NoScope ==
    [][/\ last'.op \in {"cond", "loop", "cond_exit", "loop_exit"}
          => (scopes' = scopes /\ current_scope' = current_scope)
       /\ InBody
          => /\ Cur = ScopeOf(Len(stack))
             /\ current_scope' = Cur
             /\ Len(scopes') = Len(scopes)
             /\ \A i \in 1..Len(scopes) : i # Cur => scopes'[i] = scopes[i]
             /\ \A n \in DOMAIN scopes[Cur].symbols :
                   /\ n \in DOMAIN scopes'[Cur].symbols
                   /\ scopes'[Cur].symbols[n] = scopes[Cur].symbols[n]]_vars

\* a declaration visited in the body of a conditional or loop of the entry
\* block and bound in the scope of the entry block
C20_Witness ==
    /\ last.op = "declaration"
    /\ result = "Running"
    /\ InBody
    /\ Cur = 2
    /\ scopes[Cur].scope_name = "entry"
    /\ last.identifier.name \in DOMAIN scopes[Cur].symbols

\* C21: a function definition is accepted whatever its parameter names resolve
\* to in the enclosing scopes, where a declaration of such a name is a
\* duplicate; in the scope of the body every parameter name resolves to the
\* symbol of the parameter (of the last parameter of that name), not to a
\* binding of an enclosing scope, and a reference to it has the parameter's type.
C21_ParamsShadow ==
    [][(last'.op = "function" /\ last'.func_name.tag = "Id")
       => /\ result' = "Running"
          /\ Len(scopes') = Len(scopes) + 1
          /\ \A i \in 1..Len(last'.params) :
                LET name == to_string(last'.params[i].identifier)
                    symbol == scopes'[current_scope'].symbols[name]
                    ref == travel_ident(scopes', current_scope', IdentNode(Id(name)))
                    decl == travel_declaration(scopes, Cur,
                               IdentDeclarationNode(Id(name), last'.params[i].token))
                IN /\ name \in DOMAIN scopes'[current_scope'].symbols
                   /\ symbol.kind = "IdentSymbol"
                   /\ \E j \in i..Len(last'.params) :
                         /\ to_string(last'.params[j].identifier) = name
                         /\ symbol.ty = last'.params[j].token
                         /\ ref.val = NumberFrom(last'.params[j].token)
                   /\ lookup(scopes', current_scope', name) = symbol
                   /\ ref.st = "Ok"
                   /\ Bound(name) # None
                      => (decl.st = "Err"
                          /\ decl.msg = "Found duplicate variable declaration")]_vars

\* a function entered with an array parameter x while x is a scalar of the
\* root scope: x resolves to the parameter
C21_Witness ==
    /\ last.op = "function"
    /\ result = "Running"
    /\ Cur = 2
    /\ "x" \in DOMAIN scopes[1].symbols
    /\ "x" \in DOMAIN scopes[2].symbols
    /\ scopes[1].symbols["x"].ty = Felt
    /\ scopes[2].symbols["x"].ty = Array(Felt, MaxLen)
    /\ Bound("x") = scopes[2].symbols["x"]

====
